---- MODULE Spec2Model ----
(***************************************************************************)
(* Model of django_ssh_storage: SSHClientManager (sshclientmanager.py),    *)
(* the single-host SSHStorage adapter, the multi-host MultipleSSHStorages  *)
(* coordinator and their configuration decoding (storage.py), and the      *)
(* remote hosts they talk to over SFTP.                                    *)
(*                                                                         *)
(* Strings that the code parses (paths, file names) are sequences of       *)
(* one-character strings, so os.path.join/split/splitext, str.split and    *)
(* str.format are computed as Python computes them.  The remote file       *)
(* system of a host is a set of directories and a map of regular files,    *)
(* both keyed by canonical absolute paths.                                 *)
(***************************************************************************)
EXTENDS Integers, Sequences, FiniteSets, TLC

VARIABLES
    remote,     \* remote[h]: the file system of host h, [dirs, files]
    mgr,        \* a stand-alone SSHClientManager object (or NoManager)
    managers,   \* MultipleSSHStorages._ssh_client_managers: host -> manager
    nextId,     \* identity given to the next SSHClientManager constructed
    last,       \* what the last call did: operation, arguments, outcome
    calls,      \* the mkdir calls in progress on concurrent sessions
    file        \* an SSHStorageFile handle of the adapter (or NoFile)

vars == <<remote, mgr, managers, nextId, last, calls, file>>

----------------------------------------------------------------------------
(* Bounds of the model *)

\* upload is offered only while a host stores fewer regular files than this
MaxFiles == 3
\* SSHClientManager objects constructed in one behaviour
MaxManagers == 4

----------------------------------------------------------------------------
(* Strings *)

Sep == "/"
Dot == "."

Digits == <<"0", "1", "2", "3", "4", "5", "6", "7", "8", "9">>

\* str(n) for n >= 0, as "{}".format(counter) prints it
RECURSIVE IntToStr(_)
IntToStr(n) ==
    IF n < 10 THEN <<Digits[n + 1]>>
    ELSE IntToStr(n \div 10) \o <<Digits[(n % 10) + 1]>>

\* s[i:] and s[:i] with Python's 0-based index i, 0 <= i <= len(s)
From(s, i) == SubSeq(s, i + 1, Len(s))
UpTo(s, i) == SubSeq(s, 1, i)

\* s.rfind(c): 0-based index of the last c in s, -1 when there is none
RFind(s, c) ==
    LET hits == {i \in 1..Len(s) : s[i] = c}
    IN  IF hits = {} THEN -1
        ELSE (CHOOSE i \in hits : \A j \in hits : j <= i) - 1

\* s.rstrip(c)
RECURSIVE RStrip(_, _)
RStrip(s, c) ==
    IF s # <<>> /\ s[Len(s)] = c THEN RStrip(UpTo(s, Len(s) - 1), c) ELSE s

\* s.split(c): the list of the pieces between the occurrences of c
RECURSIVE StrSplit(_, _)
StrSplit(s, c) ==
    LET hits == {i \in 1..Len(s) : s[i] = c}
    IN  IF hits = {} THEN <<s>>
        ELSE LET i == CHOOSE k \in hits : \A j \in hits : k <= j
             IN  <<UpTo(s, i - 1)>> \o StrSplit(From(s, i), c)

\* posixpath.join(a, b)
PathJoin(a, b) ==
    IF b # <<>> /\ b[1] = Sep THEN b
    ELSE IF a = <<>> \/ a[Len(a)] = Sep THEN a \o b
    ELSE a \o <<Sep>> \o b

\* posixpath.join(a, *parts)
RECURSIVE PathJoinAll(_, _)
PathJoinAll(a, parts) ==
    IF parts = <<>> THEN a
    ELSE PathJoinAll(PathJoin(a, Head(parts)), Tail(parts))

\* posixpath.split(p): <<head, tail>>
PathSplit(p) ==
    LET i == RFind(p, Sep) + 1
        head == UpTo(p, i)
        tail == From(p, i)
    IN  <<IF \E k \in 1..Len(head) : head[k] # Sep THEN RStrip(head, Sep) ELSE head,
          tail>>

\* posixpath.splitext(p): <<root, ext>>; leading dots of the last component
\* do not start an extension
PathSplitExt(p) ==
    LET sepIndex == RFind(p, Sep)
        dotIndex == RFind(p, Dot)
    IN  IF dotIndex > sepIndex
           /\ \E k \in (sepIndex + 1)..(dotIndex - 1) : p[k + 1] # Dot
        THEN <<UpTo(p, dotIndex), From(p, dotIndex)>>
        ELSE <<p, <<>>>>

----------------------------------------------------------------------------
(* The remote host: an SFTP server's file system *)

\* Python's None where the code expects a string (path, destname, basepath)
None == <<"None">>

\* `not x` for a string-or-None x
Falsy(x) == x = None \/ x = <<>>

\* the directory an SFTP session starts in; relative paths resolve against it
Home == <<"/", "h">>

RECURSIVE Canon(_)
Canon(comps) ==
    IF comps = <<>> THEN <<>> ELSE <<Sep>> \o Head(comps) \o Canon(Tail(comps))

Absolute(p) == IF p # <<>> /\ p[1] = Sep THEN p ELSE Home \o <<Sep>> \o p

\* the canonical absolute path the server resolves the string p to
Resolve(p) ==
    LET comps == SelectSeq(StrSplit(Absolute(p), Sep),
                           LAMBDA c : c # <<>> /\ c # <<Dot>>)
    IN  IF comps = <<>> THEN <<Sep>> ELSE Canon(comps)

\* the directory holding the canonical path q
Parent(q) == PathSplit(q)[1]

\* a freshly provisioned host: the root and the login directory
FreshHost == [dirs |-> {<<Sep>>, Home}, files |-> [q \in {} |-> 0]]

Present(fs, q) == q \in fs.dirs \/ q \in DOMAIN fs.files

\* the server's answer to (l)stat: TRUE when the path names something
ServerStat(fs, p) == Present(fs, Resolve(p))

\* the server's answer to mkdir: the path is free and its parent is a directory
ServerCanMkdir(fs, p) ==
    ~Present(fs, Resolve(p)) /\ Parent(Resolve(p)) \in fs.dirs

\* the server's answer to opening p for writing: p is no directory, its parent is
ServerCanWrite(fs, p) ==
    Resolve(p) \notin fs.dirs /\ Parent(Resolve(p)) \in fs.dirs

\* the host after the server wrote data to p
ServerWrite(fs, p, data) ==
    [fs EXCEPT !.files =
        [k \in DOMAIN fs.files \cup {Resolve(p)} |->
            IF k = Resolve(p) THEN data ELSE fs.files[k]]]

----------------------------------------------------------------------------
(* SSHClientManager *)

\* no call is in progress
NoCalls == <<>>

\* no file handle has been opened
NoFile == [name |-> <<>>]

\* the Python None of a storage attribute that holds no manager
NoManager == [id |-> 0]

\* SSHClientManager.__init__
NewManager(id, hostname, username, password, rsa_key, port, basepath) ==
    [id          |-> id,
     hostname    |-> hostname,
     username    |-> username,
     password    |-> password,
     rsa_key     |-> rsa_key,
     port        |-> port,
     basepath    |-> basepath,
     currentpath |-> basepath,
     ssh         |-> "None",
     sftp        |-> "None"]

\* SSHClientManager.check: TRUE when it returns, FALSE when it raises
CheckPasses(m) ==
    /\ m.username # "None"
    /\ ~(m.password = "None" /\ m.rsa_key = "None")

\* What the transport can answer to SSHClient.connect followed by open_sftp:
\* both succeed; authentication is refused; the host cannot be reached (a
\* socket error); the session is up but the SFTP channel is refused.
NetOutcomes == {"ok", "AuthenticationException", "socket.error", "sftp:SSHException"}

\* `except paramiko.SSHException` of connect: the exceptions it catches
CaughtByConnect(e) == e \in {"SSHException", "AuthenticationException"}

\* SSHClientManager.setup and the connect it calls, under the transport's
\* answer net: [m, exc, ret]
Setup(m, net) ==
    LET fresh == [m EXCEPT !.ssh = "new"]
    IN  CASE net = "ok" ->
               [m |-> [fresh EXCEPT !.ssh = "live", !.sftp = "live"],
                exc |-> "none", ret |-> TRUE]
          [] net = "sftp:SSHException" ->
               IF CaughtByConnect("SSHException")
               THEN [m |-> [fresh EXCEPT !.ssh = "live"], exc |-> "none", ret |-> FALSE]
               ELSE [m |-> [fresh EXCEPT !.ssh = "live"], exc |-> "SSHException",
                     ret |-> FALSE]
          [] OTHER ->
               IF CaughtByConnect(net)
               THEN [m |-> fresh, exc |-> "none", ret |-> FALSE]
               ELSE [m |-> fresh, exc |-> net, ret |-> FALSE]

\* the sftp property: [m, setups, handle]; setups counts the setup() calls made.
\* hasattr(self, '_sftp') is the test: __init__ always binds the attribute
SftpProperty(m, net) ==
    IF "sftp" \notin DOMAIN m
    THEN LET r == Setup(m, net)
         IN  [m |-> r.m, setups |-> 1, exc |-> r.exc, handle |-> r.m.sftp]
    ELSE [m |-> m, setups |-> 0, exc |-> "none", handle |-> m.sftp]

\* what evaluating self._sftp.<method>(...) raises before the server is asked:
\* no handle (None has no such attribute), or a handle whose transport is gone
HandleFault(handle) ==
    CASE handle = "None" -> "AttributeError"
      [] handle = "dead" -> "IOError"
      [] OTHER           -> "none"

\* self._sftp.lstat(p) / stat(p): the exception raised, "none" when it returns
SftpStat(handle, fs, p) ==
    IF HandleFault(handle) # "none" THEN HandleFault(handle)
    ELSE IF ServerStat(fs, p) THEN "none" ELSE "IOError"

\* self._sftp.mkdir(p): [exc, fs]
SftpMkdir(handle, fs, p) ==
    IF HandleFault(handle) # "none" THEN [exc |-> HandleFault(handle), fs |-> fs]
    ELSE IF ServerCanMkdir(fs, p) THEN [exc |-> "none", fs |-> [fs EXCEPT !.dirs = @ \cup {Resolve(p)}]]
    ELSE [exc |-> "IOError", fs |-> fs]

\* self._sftp.putfo(stream, p) / put(local, p): [exc, fs]
SftpPut(handle, fs, data, p) ==
    IF HandleFault(handle) # "none" THEN [exc |-> HandleFault(handle), fs |-> fs]
    ELSE IF ServerCanWrite(fs, p)
         THEN [exc |-> "none", fs |-> ServerWrite(fs, p, data)]
    ELSE [exc |-> "IOError", fs |-> fs]

\* the loop of mkdir over pp in range(1, len(pathdirs)), from pp on: [exc, fs]
RECURSIVE MkdirWalk(_, _, _, _)
MkdirWalk(handle, fs, pathdirs, pp) ==
    IF pp >= Len(pathdirs) THEN [exc |-> "none", fs |-> fs]
    ELSE LET currentpath == PathJoinAll(<<Sep>>, SubSeq(pathdirs, 1, pp + 1))
             probe == SftpStat(handle, fs, currentpath)
         IN  CASE probe = "none" -> MkdirWalk(handle, fs, pathdirs, pp + 1)
               [] probe = "IOError" ->
                    LET made == SftpMkdir(handle, fs, currentpath)
                    IN  IF made.exc # "none" THEN made
                        ELSE MkdirWalk(handle, made.fs, pathdirs, pp + 1)
               [] OTHER -> [exc |-> probe, fs |-> fs]

\* the regular file the server finds at p, if any
ServerIsFile(fs, p) == Resolve(p) \in DOMAIN fs.files

\* SSHClientManager.mkdir: [exc, fs]
Mkdir(m, fs, path, recursive) ==
    LET first == SftpMkdir(m.sftp, fs, path)
    IN  CASE first.exc = "none" -> first
          [] first.exc = "IOError" ->
               IF recursive THEN MkdirWalk(m.sftp, fs, StrSplit(path, Sep), 1)
               ELSE first
          [] OTHER -> first

\* "{}_{}{}".format(filename_prefix, counter, filename_ext)
Suffixed(prefix, counter, ext) == prefix \o <<"_">> \o IntToStr(counter) \o ext

\* a probing loop that leaves at once, as if overwrite were always true
ProbeDestNoSuffix(handle, fs, prefix, ext, destpath, counter, overwrite) ==
    destpath

\* a probing loop that never looks at overwrite: it counts up to a free name
RECURSIVE ProbeDestAlwaysSuffix(_, _, _, _, _, _, _)
ProbeDestAlwaysSuffix(handle, fs, prefix, ext, destpath, counter, overwrite) ==
    IF SftpStat(handle, fs, destpath) # "none" THEN destpath
    ELSE ProbeDestAlwaysSuffix(handle, fs, prefix, ext,
                               Suffixed(prefix, counter + 1, ext), counter + 1,
                               overwrite)

\* the `while True` loop of upload: the destpath it leaves the loop with
RECURSIVE ProbeDest(_, _, _, _, _, _, _)
ProbeDest(handle, fs, prefix, ext, destpath, counter, overwrite) ==
    IF SftpStat(handle, fs, destpath) # "none" THEN destpath
    ELSE IF overwrite THEN destpath
    ELSE ProbeDest(handle, fs, prefix, ext,
                   Suffixed(prefix, counter + 1, ext), counter + 1, overwrite)

\* upload, lines 128-142: the outcome of the transfer `put` to `target`
UploadPut(put, target) ==
    CASE put.exc = "none" ->
           [exc |-> "none", ret |-> TRUE, fs |-> put.fs, destpath |-> target]
      [] put.exc = "IOError" ->
           [exc |-> "none", ret |-> FALSE, fs |-> put.fs, destpath |-> target]
      [] OTHER ->
           [exc |-> put.exc, ret |-> FALSE, fs |-> put.fs, destpath |-> target]

\* upload, lines 128-133: putfo/put of the source to the probed target
UploadTo(m, fs, sourcefile, target) ==
    UploadPut(SftpPut(m.sftp, fs, sourcefile.data, target), target)

\* upload, lines 107-127: after self.mkdir(path) gave `made`; an exception of
\* mkdir leaves upload; otherwise splitext of destpath, then the probing loop
UploadMade(m, made, sourcefile, destpath, overwrite) ==
    IF made.exc # "none"
    THEN [exc |-> made.exc, ret |-> FALSE, fs |-> made.fs, destpath |-> None]
    ELSE UploadTo(m, made.fs, sourcefile,
                  ProbeDest(m.sftp, made.fs, PathSplitExt(destpath)[1],
                            PathSplitExt(destpath)[2], destpath, 0, overwrite))

\* upload, lines 107-109: self.mkdir(path) and destpath
UploadInto(m, fs, sourcefile, dir, dest, overwrite) ==
    IF dir = None
    THEN [exc |-> IF m.sftp = "None" THEN "AttributeError" ELSE "TypeError",
          ret |-> FALSE, fs |-> fs, destpath |-> None]
    ELSE UploadMade(m, Mkdir(m, fs, dir, TRUE), sourcefile,
                    PathJoin(dir, dest), overwrite)

\* upload, lines 100-101: the destination name
DestName(sourcefile, destname) ==
    IF Falsy(destname) THEN PathSplit(sourcefile.name)[2] ELSE destname

\* upload, lines 103-106: the destination directory
DestDir(m, path) ==
    IF Falsy(path) THEN m.currentpath ELSE PathJoin(m.basepath, path)

\* SSHClientManager.upload: [exc, ret, fs, destpath].  sourcefile is
\* [name, data]: the source's name attribute and the bytes it yields.
Upload(m, fs, sourcefile, path, destname, overwrite) ==
    IF ~Falsy(path) /\ m.basepath = None
    THEN [exc |-> "TypeError", ret |-> FALSE, fs |-> fs, destpath |-> None]
    ELSE UploadInto(m, fs, sourcefile, DestDir(m, path),
                    DestName(sourcefile, destname), overwrite)

\* self._sftp.open(p, 'rb').read(): [exc, data]
SftpOpenRead(handle, fs, p) ==
    IF HandleFault(handle) # "none" THEN [exc |-> HandleFault(handle), data |-> "none"]
    ELSE IF ServerIsFile(fs, p) THEN [exc |-> "none", data |-> fs.files[Resolve(p)]]
    ELSE [exc |-> "IOError", data |-> "none"]

\* self._sftp.remove(p): [exc, fs]
SftpRemove(handle, fs, p) ==
    IF HandleFault(handle) # "none" THEN [exc |-> HandleFault(handle), fs |-> fs]
    ELSE IF ServerIsFile(fs, p)
    THEN [exc |-> "none",
          fs  |-> [fs EXCEPT !.files = [q \in DOMAIN @ \ {Resolve(p)} |-> @[q]]]]
    ELSE [exc |-> "IOError", fs |-> fs]

\* remove, lines 152-160: the outcome of self._sftp.remove(destpath)
RemoveAt(gone, destpath) ==
    CASE gone.exc = "none" ->
           [exc |-> "none", ret |-> TRUE, fs |-> gone.fs, destpath |-> destpath]
      [] gone.exc = "IOError" ->
           [exc |-> "none", ret |-> FALSE, fs |-> gone.fs, destpath |-> destpath]
      [] OTHER ->
           [exc |-> gone.exc, ret |-> FALSE, fs |-> gone.fs, destpath |-> destpath]

\* remove, lines 147-155, for the name left of filename
RemoveIn(m, fs, dir, name) ==
    IF dir = None
    THEN [exc |-> "TypeError", ret |-> FALSE, fs |-> fs, destpath |-> None]
    ELSE RemoveAt(SftpRemove(m.sftp, fs, PathJoin(dir, name)), PathJoin(dir, name))

\* a remove that keeps the directory component of filename
RemoveWhole(m, fs, filename, path) ==
    IF ~Falsy(path) /\ m.basepath = None
    THEN [exc |-> "TypeError", ret |-> FALSE, fs |-> fs, destpath |-> None]
    ELSE RemoveIn(m, fs, DestDir(m, path), filename)

\* SSHClientManager.remove: [exc, ret, fs, destpath]
Remove(m, fs, filename, path) ==
    IF ~Falsy(path) /\ m.basepath = None
    THEN [exc |-> "TypeError", ret |-> FALSE, fs |-> fs, destpath |-> None]
    ELSE RemoveIn(m, fs, DestDir(m, path), PathSplit(filename)[2])

\* SSHClientManager.close_connection: [m, ret]; the bare except swallows the
\* AttributeError of None.close() and skips the statements after it
CloseConnection(m) ==
    LET reset == [m EXCEPT !.hostname = "None", !.username = "None",
                           !.password = "None", !.port = 22, !.rsa_key = "None",
                           !.basepath = None, !.currentpath = None]
    IN  CASE reset.sftp = "None" -> [m |-> reset, ret |-> FALSE]
          [] reset.ssh = "None"  -> [m |-> [reset EXCEPT !.sftp = "dead"], ret |-> FALSE]
          [] OTHER ->
               [m |-> [reset EXCEPT !.sftp = "None", !.ssh = "None"], ret |-> TRUE]

----------------------------------------------------------------------------
(* Inputs *)

Hosts == {"h1", "h2"}

\* dict order of _ssh_client_managers: the order of the HOSTNAMES setting
HostOrder == <<"h1", "h2">>

\* the host the stand-alone manager is constructed for
TheHost == "h1"

\* BASEPATH settings: an absolute remote directory and one relative to the
\* login directory
BasePaths == {<<"/", "d">>, <<"u">>}

\* path arguments of upload: none, and a directory under the base path
UploadPaths == {None, <<"s">>}

\* destname arguments of upload: none (the source's name is used), and a name
DestNames == {None, <<"g">>}

\* sourcefile arguments of upload: two streams named f.j that differ in their
\* bytes
SourceFiles ==
    {[name |-> <<"f", ".", "j">>, data |-> "c1"],
     [name |-> <<"f", ".", "j">>, data |-> "c2"]}

NumFiles(fs) == Cardinality(DOMAIN fs.files)

----------------------------------------------------------------------------
(* One SSHClientManager and its host *)

\* the manager constructed as SSHStorage._start_connection constructs it
Init ==
    /\ remote = [h \in Hosts |-> FreshHost]
    /\ \E base \in BasePaths :
           mgr = NewManager(1, TheHost, "u", "p", "None", 22, base)
    /\ managers = [h \in Hosts |-> NoManager]
    /\ nextId = 2
    /\ last = [op |-> "init"]
    /\ calls = NoCalls
    /\ file = NoFile

\* mgr.setup()
DoSetup ==
    \E net \in NetOutcomes :
    \E r \in {Setup(mgr, net)} :
        /\ mgr' = r.m
        /\ last' = [op |-> "setup", net |-> net, exc |-> r.exc, ret |-> r.ret]
        /\ UNCHANGED <<remote, managers, nextId, calls, file>>

\* mgr.sftp
DoSftp ==
    \E net \in NetOutcomes :
    \E r \in {SftpProperty(mgr, net)} :
        /\ mgr' = r.m
        /\ last' = [op |-> "sftp", had |-> mgr.sftp, setups |-> r.setups,
                    exc |-> r.exc, handle |-> r.handle]
        /\ UNCHANGED <<remote, managers, nextId, calls, file>>

\* mgr.mkdir(path, recursive)
DoMkdir ==
    \E path \in {mgr.basepath, PathJoin(mgr.basepath, <<"s">>),
                 PathJoin(mgr.basepath, <<"s", "/", "t">>)},
       recursive \in BOOLEAN :
    \E r \in {Mkdir(mgr, remote[TheHost], path, recursive)} :
        /\ remote' = [remote EXCEPT ![TheHost] = r.fs]
        /\ last' = [op |-> "mkdir", path |-> path, recursive |-> recursive,
                    exc |-> r.exc]
        /\ UNCHANGED <<mgr, managers, nextId, calls, file>>

\* mgr.upload(sourcefile, path, destname, overwrite)
DoUpload ==
    /\ NumFiles(remote[TheHost]) < MaxFiles
    /\ \E sourcefile \in SourceFiles, path \in UploadPaths,
          destname \in DestNames, overwrite \in BOOLEAN :
       \E r \in {Upload(mgr, remote[TheHost], sourcefile, path, destname, overwrite)} :
        /\ remote' = [remote EXCEPT ![TheHost] = r.fs]
        /\ last' = [op |-> "upload", sourcefile |-> sourcefile, path |-> path,
                    destname |-> destname, overwrite |-> overwrite,
                    exc |-> r.exc, ret |-> r.ret, destpath |-> r.destpath]
        /\ UNCHANGED <<mgr, managers, nextId, calls, file>>

\* mgr.close_connection()
DoClose ==
    \E r \in {CloseConnection(mgr)} :
        /\ mgr' = r.m
        /\ last' = [op |-> "close", had |-> mgr.sftp, exc |-> "none", ret |-> r.ret]
        /\ UNCHANGED <<remote, managers, nextId, calls, file>>

\* the network: the transport under a manager's handles is lost
Dropped(m) ==
    [m EXCEPT !.ssh = IF @ = "live" THEN "dead" ELSE @,
              !.sftp = IF @ = "live" THEN "dead" ELSE @]

DoDrop ==
    /\ mgr.ssh = "live" \/ mgr.sftp = "live"
    /\ mgr' = Dropped(mgr)
    /\ last' = [op |-> "drop"]
    /\ UNCHANGED <<remote, managers, nextId, calls, file>>

\* a further SSHClientManager is constructed and takes the place of mgr
DoNew ==
    /\ nextId <= MaxManagers
    /\ \E base \in BasePaths :
           mgr' = NewManager(nextId, TheHost, "u", "p", "None", 22, base)
    /\ nextId' = nextId + 1
    /\ last' = [op |-> "new"]
    /\ UNCHANGED <<remote, managers, calls, file>>

\* file names a remove is asked for: the names uploads store, and one given
\* with a directory component
BareNames == {<<"f", ".", "j">>, <<"g">>}

\* mgr.remove(filename, path)
DoRemove ==
    \E filename \in BareNames \cup {<<"s", "/", "f", ".", "j">>},
       path \in UploadPaths :
    \E r \in {Remove(mgr, remote[TheHost], filename, path)} :
        /\ remote' = [remote EXCEPT ![TheHost] = r.fs]
        /\ last' = [op |-> "remove", filename |-> filename, path |-> path,
                    exc |-> r.exc, ret |-> r.ret, destpath |-> r.destpath]
        /\ UNCHANGED <<mgr, managers, nextId, calls, file>>

\* uploads through one manager
Next == DoSetup \/ DoUpload \/ DoDrop

Spec == Init /\ [][Next]_vars

\* directory creation through one manager
MkdirNext == DoSetup \/ DoMkdir \/ DoDrop

MkdirSpec == Init /\ [][MkdirNext]_vars

\* mgr.upload(sourcefile, path, destname), overwrite left at its default
DoUploadOver ==
    /\ NumFiles(remote[TheHost]) < MaxFiles
    /\ \E sourcefile \in SourceFiles, path \in UploadPaths, destname \in DestNames :
       \E r \in {Upload(mgr, remote[TheHost], sourcefile, path, destname, TRUE)} :
        /\ remote' = [remote EXCEPT ![TheHost] = r.fs]
        /\ last' = [op |-> "upload", sourcefile |-> sourcefile, path |-> path,
                    destname |-> destname, overwrite |-> TRUE,
                    exc |-> r.exc, ret |-> r.ret, destpath |-> r.destpath]
        /\ UNCHANGED <<mgr, managers, nextId, calls, file>>

\* uploads and removes through one manager
RemoveNext == DoSetup \/ DoUploadOver \/ DoRemove \/ DoDrop

RemoveSpec == Init /\ [][RemoveNext]_vars

\* the connection life cycle of managers
ConnNext == DoNew \/ DoSetup \/ DoSftp \/ DoClose \/ DoDrop

ConnSpec == Init /\ [][ConnNext]_vars

----------------------------------------------------------------------------
(* Two managers with working sessions to the same host run                  *)
(* mkdir(path, recursive=True) concurrently.  Each request to the server    *)
(* (the mkdir of line 76, an lstat of line 83, a mkdir of line 85) is one   *)
(* step; calls[s] is the position of session s in its call.                 *)

Sessions == {1, 2}

\* currentpath of the pass pp of the loop, line 81
WalkPath(path, pp) == PathJoinAll(<<Sep>>, SubSeq(StrSplit(path, Sep), 1, pp + 1))

\* the call has returned, or has raised exc
Returned(c, exc) == [c EXCEPT !.pc = "done", !.exc = exc]

\* the loop goes to its pass pp, or ends and mkdir returns
WalkTo(c, pp) ==
    IF pp >= Len(StrSplit(c.path, Sep)) THEN Returned(c, "none")
    ELSE [c EXCEPT !.pc = "stat", !.pp = pp]

\* lines 75-79: self._sftp.mkdir(path) answered with exc
AfterFirst(c, exc) ==
    IF exc = "none" THEN Returned(c, "none") ELSE WalkTo(c, 1)

\* lines 82-84: self._sftp.lstat(currentpath) answered with exc
AfterStat(c, exc) ==
    IF exc = "none" THEN WalkTo(c, c.pp + 1) ELSE [c EXCEPT !.pc = "make"]

\* line 85: self._sftp.mkdir(currentpath) answered with exc; nothing catches
AfterMake(c, exc) ==
    IF exc = "none" THEN WalkTo(c, c.pp + 1) ELSE Returned(c, exc)

\* both sessions are about to call mkdir
RaceInit ==
    /\ remote = [h \in Hosts |-> FreshHost]
    /\ mgr = NoManager
    /\ managers = [h \in Hosts |-> NoManager]
    /\ nextId = 1
    /\ last = [op |-> "init"]
    /\ file = NoFile
    /\ \E paths \in [Sessions -> {<<"/", "d", "/", "s">>,
                                  <<"/", "d", "/", "s", "/", "t">>}] :
           calls = [s \in Sessions |->
                       [pc |-> "first", path |-> paths[s], pp |-> 0, exc |-> "none"]]

\* session s sends the mkdir of line 76
DoRaceFirst ==
    \E s \in Sessions :
    \E r \in {SftpMkdir("live", remote[TheHost], calls[s].path)} :
        /\ calls[s].pc = "first"
        /\ remote' = [remote EXCEPT ![TheHost] = r.fs]
        /\ calls' = [calls EXCEPT ![s] = AfterFirst(@, r.exc)]
        /\ last' = [op |-> "mkdir:76", session |-> s, exc |-> r.exc]
        /\ UNCHANGED <<mgr, managers, nextId, file>>

\* session s sends the lstat of line 83
DoRaceStat ==
    \E s \in Sessions :
    \E e \in {SftpStat("live", remote[TheHost], WalkPath(calls[s].path, calls[s].pp))} :
        /\ calls[s].pc = "stat"
        /\ calls' = [calls EXCEPT ![s] = AfterStat(@, e)]
        /\ last' = [op |-> "lstat:83", session |-> s, exc |-> e]
        /\ UNCHANGED <<remote, mgr, managers, nextId, file>>

\* session s sends the mkdir of line 85
DoRaceMake ==
    \E s \in Sessions :
    \E r \in {SftpMkdir("live", remote[TheHost], WalkPath(calls[s].path, calls[s].pp))} :
        /\ calls[s].pc = "make"
        /\ remote' = [remote EXCEPT ![TheHost] = r.fs]
        /\ calls' = [calls EXCEPT ![s] = AfterMake(@, r.exc)]
        /\ last' = [op |-> "mkdir:85", session |-> s, exc |-> r.exc]
        /\ UNCHANGED <<mgr, managers, nextId, file>>

RaceNext == DoRaceFirst \/ DoRaceStat \/ DoRaceMake

RaceSpec == RaceInit /\ [][RaceNext]_vars

----------------------------------------------------------------------------
(* MultipleSSHStorages: the multi-host coordinator *)

\* self._config after _decode_location: credentials and base path shared by
\* every host
Config == [username |-> "u", password |-> "p", rsa_key |-> "None",
           port |-> 22, basepath |-> <<"/", "d">>]

\* name arguments of the storage operations: a bare file name and one with a
\* directory part
StorageNames == {<<"f", ".", "j">>, <<"s", "/", "f", ".", "j">>}

\* content arguments of the storage operations: a stream named like the file
StorageContents == {[name |-> <<"f", ".", "j">>, data |-> "c1"]}

\* SSHStorage._remote_path
RemotePath(name) == PathJoin(Config.basepath, name)

\* a pass that goes on to the next host when setup() returned false
SweepHostNoRaise(old, host, net, id) ==
    IF old # NoManager /\ CheckPasses(old)
    THEN [entry |-> old, exc |-> "none", setup |-> "kept"]
    ELSE
    LET inMap == IF old = NoManager THEN old ELSE CloseConnection(old).m
        made  == Setup(NewManager(id, host, Config.username, Config.password,
                                  Config.rsa_key, Config.port, Config.basepath),
                       net)
    IN  CASE made.exc # "none" ->
               [entry |-> inMap, exc |-> made.exc, setup |-> "raised"]
          [] ~made.ret ->
               [entry |-> inMap, exc |-> "none", setup |-> "False"]
          [] OTHER ->
               [entry |-> made.m, exc |-> "none", setup |-> "True"]

\* a pass that also reconnects a manager whose transport is gone
SweepHostProbing(old, host, net, id) ==
    IF old # NoManager /\ CheckPasses(old) /\ old.sftp = "live"
    THEN [entry |-> old, exc |-> "none", setup |-> "kept"]
    ELSE
    LET inMap == IF old = NoManager THEN old ELSE CloseConnection(old).m
        made  == Setup(NewManager(id, host, Config.username, Config.password,
                                  Config.rsa_key, Config.port, Config.basepath),
                       net)
    IN  CASE made.exc # "none" ->
               [entry |-> inMap, exc |-> made.exc, setup |-> "raised"]
          [] ~made.ret ->
               [entry |-> inMap, exc |-> "SSHStorageException", setup |-> "False"]
          [] OTHER ->
               [entry |-> made.m, exc |-> "none", setup |-> "True"]

\* One pass of the loop of _start_connection, for `host` whose map entry is
\* `old`: [entry, exc, setup].  entry is what the map holds for the host
\* afterwards; setup tells what setup() did ("kept" when it was not called).
SweepHost(old, host, net, id) ==
    IF old # NoManager /\ CheckPasses(old)
    THEN [entry |-> old, exc |-> "none", setup |-> "kept"]
    ELSE
    LET inMap == IF old = NoManager THEN old ELSE CloseConnection(old).m
        made  == Setup(NewManager(id, host, Config.username, Config.password,
                                  Config.rsa_key, Config.port, Config.basepath),
                       net)
    IN  CASE made.exc # "none" ->
               [entry |-> inMap, exc |-> made.exc, setup |-> "raised"]
          [] ~made.ret ->
               [entry |-> inMap, exc |-> "SSHStorageException", setup |-> "False"]
          [] OTHER ->
               [entry |-> made.m, exc |-> "none", setup |-> "True"]

\* the loop of _start_connection after host's pass gave r
SweepDone(prev, host, r) ==
    [map    |-> [prev.map EXCEPT ![host] = r.entry],
     exc    |-> r.exc,
     setups |-> [prev.setups EXCEPT ![host] = r.setup],
     id     |-> IF r.setup = "kept" THEN prev.id ELSE prev.id + 1]

\* one pass of the loop of _start_connection; an exception has ended the loop
SweepStep(prev, host, net) ==
    IF prev.exc # "none" THEN prev
    ELSE SweepDone(prev, host, SweepHost(prev.map[host], host, net, prev.id))

\* the loop of _start_connection over the first i hosts: [map, exc, setups, id]
RECURSIVE SweepLoop(_, _, _, _)
SweepLoop(map, i, nets, id) ==
    IF i = 0
    THEN [map |-> map, exc |-> "none", setups |-> [h \in Hosts |-> "skipped"],
          id |-> id]
    ELSE SweepStep(SweepLoop(map, i - 1, nets, id), HostOrder[i], nets[HostOrder[i]])

NotReached == [h \in Hosts |-> "skipped"]

\* MultipleSSHStorages._start_connection
StartConnection(map, nets, id) == SweepLoop(map, Len(HostOrder), nets, id)

\* manager.upload(...) of _put_file for one host: [exc, ret, fs, destpath]
PutHost(manager, fs, content, path, destname) ==
    IF manager = NoManager
    THEN [exc |-> "AttributeError", ret |-> FALSE, fs |-> fs, destpath |-> None]
    ELSE Upload(manager, fs, content, path, destname, TRUE)

\* the loop of _put_file after host's upload gave r: [exc, remote, results]
PutDone(prev, host, r) ==
    [exc     |-> r.exc,
     remote  |-> [prev.remote EXCEPT ![host] = r.fs],
     results |-> [prev.results EXCEPT ![host] =
                     IF r.exc # "none" THEN "raised"
                     ELSE IF r.ret THEN "True" ELSE "False"]]

\* one pass of the loop of _put_file; an exception has ended the loop
PutStep(map, prev, host, content, path, destname) ==
    IF prev.exc # "none" THEN prev
    ELSE PutDone(prev, host,
                 PutHost(map[host], prev.remote[host], content, path, destname))

\* the loop of _put_file over the first i hosts: [exc, remote, results];
\* results[h] is what upload returned on h
RECURSIVE PutLoop(_, _, _, _, _, _)
PutLoop(map, rem, i, content, path, destname) ==
    IF i = 0 THEN [exc |-> "none", remote |-> rem, results |-> NotReached]
    ELSE PutStep(map, PutLoop(map, rem, i - 1, content, path, destname),
                 HostOrder[i], content, path, destname)

\* path if path != '' else None
PathOrNone(path) == IF path # <<>> THEN path ELSE None

\* _put_file with name split into <<path, destname>>
PutParts(map, rem, parts, content) ==
    PutLoop(map, rem, Len(HostOrder), content, PathOrNone(parts[1]), parts[2])

\* MultipleSSHStorages._put_file(name, content)
PutFile(map, rem, name, content) == PutParts(map, rem, PathSplit(name), content)

\* manager.sftp.stat(remote_path) of exists for one host: the exception raised
StatHost(manager, fs, remote_path) ==
    IF manager = NoManager THEN "AttributeError"
    ELSE SftpStat(SftpProperty(manager, "ok").handle, fs, remote_path)

\* MultipleSSHStorages.exists from the i-th host on: [exc, ret]
RECURSIVE ExistsFrom(_, _, _, _)
ExistsFrom(map, rem, i, remote_path) ==
    IF i > Len(HostOrder) THEN [exc |-> "none", ret |-> TRUE]
    ELSE LET e == StatHost(map[HostOrder[i]], rem[HostOrder[i]], remote_path)
         IN  CASE e = "none"    -> ExistsFrom(map, rem, i + 1, remote_path)
               [] e = "IOError" -> [exc |-> "none", ret |-> FALSE]
               [] OTHER         -> [exc |-> e, ret |-> FALSE]

\* MultipleSSHStorages.exists(name)
Exists(map, rem, name) == ExistsFrom(map, rem, 1, RemotePath(name))

\* MultipleSSHStorages.__init__: no host has a manager yet
MultiInit ==
    /\ remote = [h \in Hosts |-> FreshHost]
    /\ mgr = NoManager
    /\ managers = [h \in Hosts |-> NoManager]
    /\ nextId = 1
    /\ last = [op |-> "init"]
    /\ calls = NoCalls
    /\ file = NoFile

\* storage._start_connection()
DoSweep ==
    /\ nextId + Len(HostOrder) - 1 <= MaxManagers
    /\ \E nets \in [Hosts -> NetOutcomes] :
       \E r \in {StartConnection(managers, nets, nextId)} :
        /\ managers' = r.map
        /\ nextId' = r.id
        /\ last' = [op |-> "sweep", exc |-> r.exc, setups |-> r.setups]
        /\ UNCHANGED <<remote, mgr, calls, file>>

\* storage._put_file(name, content)
DoPutFile ==
    \E name \in StorageNames, content \in StorageContents :
    \E r \in {PutFile(managers, remote, name, content)} :
        /\ remote' = r.remote
        /\ last' = [op |-> "put", name |-> name, data |-> content.data,
                    exc |-> r.exc, results |-> r.results]
        /\ UNCHANGED <<mgr, managers, nextId, calls, file>>

\* _save after _start_connection gave sw: _put_file, unless the sweep raised
SaveAfter(sw, rem, name, content) ==
    IF sw.exc # "none"
    THEN [exc |-> sw.exc, remote |-> rem, results |-> NotReached]
    ELSE PutFile(sw.map, rem, name, content)

\* storage._save(name, content): _start_connection, then _put_file
DoSave ==
    /\ nextId + Len(HostOrder) - 1 <= MaxManagers
    /\ \E name \in StorageNames, content \in StorageContents,
          nets \in [Hosts -> NetOutcomes] :
       \E sw \in {StartConnection(managers, nets, nextId)} :
       \E r \in {SaveAfter(sw, remote, name, content)} :
        /\ managers' = sw.map
        /\ nextId' = sw.id
        /\ remote' = r.remote
        /\ last' = [op |-> "save", name |-> name, data |-> content.data,
                    exc |-> r.exc, results |-> r.results, setups |-> sw.setups]
        /\ UNCHANGED <<mgr, calls, file>>

\* storage.exists(name)
DoExists ==
    \E name \in StorageNames :
    \E r \in {Exists(managers, remote, name)} :
        /\ last' = [op |-> "exists", name |-> name, exc |-> r.exc, ret |-> r.ret]
        /\ UNCHANGED <<remote, mgr, managers, nextId, calls, file>>

\* close_connection() called on the manager the coordinator holds for a host
DoManagerClose ==
    \E h \in Hosts :
        /\ managers[h] # NoManager
        /\ managers' = [managers EXCEPT ![h] = CloseConnection(@).m]
        /\ last' = [op |-> "mclose", host |-> h]
        /\ UNCHANGED <<remote, mgr, nextId, calls, file>>

\* the network: the transport to a host is lost
DoHostDrop ==
    \E h \in Hosts :
        /\ managers[h] # NoManager
        /\ managers[h].sftp = "live"
        /\ managers' = [managers EXCEPT ![h] = Dropped(@)]
        /\ last' = [op |-> "hostdrop", host |-> h]
        /\ UNCHANGED <<remote, mgr, nextId, calls, file>>

MultiNext ==
    DoSweep \/ DoPutFile \/ DoSave \/ DoExists \/ DoManagerClose \/ DoHostDrop

MultiSpec == MultiInit /\ [][MultiNext]_vars

----------------------------------------------------------------------------
(* SSHStorage: the single-host adapter.  mgr is its _ssh_client_manager. *)

\* SSHStorage._start_connection after the check: the manager constructed at
\* line 163 is bound to the adapter before setup() is called on it
StoreConnect(made, id) ==
    [m     |-> made.m,
     exc   |-> IF made.exc # "none" THEN made.exc
               ELSE IF made.ret THEN "none" ELSE "SSHStorageException",
     setup |-> IF made.exc # "none" THEN "raised"
               ELSE IF made.ret THEN "True" ELSE "False",
     id    |-> id + 1]

\* SSHStorage._start_connection: [m, exc, setup, id]
StoreStart(m, net, id) ==
    IF m # NoManager /\ CheckPasses(m)
    THEN [m |-> m, exc |-> "none", setup |-> "kept", id |-> id]
    ELSE StoreConnect(Setup(NewManager(id, TheHost, Config.username,
                                       Config.password, Config.rsa_key,
                                       Config.port, Config.basepath), net), id)

\* the ssh_client_manager property: [m, exc, setup, id]
StoreManager(m, net, id) ==
    IF m = NoManager THEN StoreStart(m, net, id)
    ELSE [m |-> m, exc |-> "none", setup |-> "kept", id |-> id]

\* SSHStorage._put_file after upload gave r: [exc, fs]
StorePutDone(r) ==
    [exc |-> IF r.exc # "none" THEN r.exc
             ELSE IF r.ret THEN "none" ELSE "SSHStorageException",
     fs  |-> r.fs]

\* a _put_file that asks upload not to overwrite
StorePutPartsKeepOld(m, fs, parts, content) ==
    StorePutDone(Upload(m, fs, content, PathOrNone(parts[1]), parts[2], FALSE))

\* SSHStorage._put_file with name split into <<path, destname>>
StorePutParts(m, fs, parts, content) ==
    StorePutDone(Upload(m, fs, content, PathOrNone(parts[1]), parts[2], TRUE))

\* SSHStorage._save after _start_connection gave st: [m, id, exc, fs, setup]
StoreSaveAfter(st, fs, name, content) ==
    IF st.exc # "none"
    THEN [m |-> st.m, id |-> st.id, exc |-> st.exc, fs |-> fs, setup |-> st.setup]
    ELSE LET r == StorePutParts(st.m, fs, PathSplit(name), content)
         IN  [m |-> st.m, id |-> st.id, exc |-> r.exc, fs |-> r.fs,
              setup |-> st.setup]

\* SSHStorage._save(name, content)
StoreSave(m, fs, name, content, net, id) ==
    StoreSaveAfter(StoreStart(m, net, id), fs, name, content)

\* self.ssh_client_manager.sftp of a storage operation, the property having
\* given pm: the handle, or the exception raised on the way to it
StoreHandle(pm) ==
    IF pm.exc # "none" THEN [exc |-> pm.exc, handle |-> "None"]
    ELSE [exc |-> "none", handle |-> SftpProperty(pm.m, "ok").handle]

\* SSHStorageFile.read through SSHStorage._read: [exc, data]
StoreReadWith(h, fs, name) ==
    IF h.exc # "none" THEN [exc |-> h.exc, data |-> "none"]
    ELSE SftpOpenRead(h.handle, fs, RemotePath(name))

\* SSHStorage.exists: [exc, ret]
StoreExistsWith(h, fs, name) ==
    IF h.exc # "none" THEN [exc |-> h.exc, ret |-> FALSE]
    ELSE LET e == SftpStat(h.handle, fs, RemotePath(name))
         IN  CASE e = "none"    -> [exc |-> "none", ret |-> TRUE]
               [] e = "IOError" -> [exc |-> "none", ret |-> FALSE]
               [] OTHER         -> [exc |-> e, ret |-> FALSE]

\* SSHStorage.delete: [exc, fs]
StoreDeleteWith(h, fs, name) ==
    IF h.exc # "none" THEN [exc |-> h.exc, fs |-> fs]
    ELSE SftpRemove(h.handle, fs, RemotePath(name))

\* SSHStorage.__init__: the adapter holds no manager yet
StoreInit ==
    /\ remote = [h \in Hosts |-> FreshHost]
    /\ mgr = NoManager
    /\ managers = [h \in Hosts |-> NoManager]
    /\ nextId = 1
    /\ last = [op |-> "init"]
    /\ calls = NoCalls
    /\ file = NoFile

\* the handles the adapter's manager holds, "absent" when it holds no manager
Held(m) == IF m = NoManager THEN "absent" ELSE m.sftp

\* what a read remembers of the call before it
Before(l) ==
    IF l.op = "save"
    THEN [op |-> l.op, name |-> l.name, data |-> l.data, exc |-> l.exc,
          existed |-> l.existed]
    ELSE [op |-> l.op]

\* storage._save(name, content)
DoStoreSave ==
    /\ NumFiles(remote[TheHost]) < MaxFiles
    /\ \E name \in StorageNames, content \in SourceFiles, net \in NetOutcomes :
       \E r \in {StoreSave(mgr, remote[TheHost], name, content, net, nextId)} :
        /\ r.id <= MaxManagers + 1
        /\ mgr' = r.m
        /\ nextId' = r.id
        /\ remote' = [remote EXCEPT ![TheHost] = r.fs]
        /\ last' = [op |-> "save", name |-> name, data |-> content.data,
                    had |-> Held(mgr), net |-> net, setup |-> r.setup,
                    existed |-> ServerStat(remote[TheHost], RemotePath(name)),
                    exc |-> r.exc]
        /\ UNCHANGED <<managers, calls, file>>

\* storage.open(name).read()
DoStoreRead ==
    \E name \in StorageNames, net \in NetOutcomes :
    \E pm \in {StoreManager(mgr, net, nextId)} :
    \E r \in {StoreReadWith(StoreHandle(pm), remote[TheHost], name)} :
        /\ pm.id <= MaxManagers + 1
        /\ mgr' = pm.m
        /\ nextId' = pm.id
        /\ last' = [op |-> "read", name |-> name, had |-> Held(mgr), net |-> net,
                    setup |-> pm.setup, exc |-> r.exc, data |-> r.data,
                    after |-> Before(last)]
        /\ UNCHANGED <<remote, managers, calls, file>>

\* storage.exists(name)
DoStoreExists ==
    \E name \in StorageNames, net \in NetOutcomes :
    \E pm \in {StoreManager(mgr, net, nextId)} :
    \E r \in {StoreExistsWith(StoreHandle(pm), remote[TheHost], name)} :
        /\ pm.id <= MaxManagers + 1
        /\ mgr' = pm.m
        /\ nextId' = pm.id
        /\ last' = [op |-> "exists", name |-> name, had |-> Held(mgr), net |-> net,
                    setup |-> pm.setup, exc |-> r.exc, ret |-> r.ret]
        /\ UNCHANGED <<remote, managers, calls, file>>

\* storage.delete(name)
DoStoreDelete ==
    \E name \in StorageNames, net \in NetOutcomes :
    \E pm \in {StoreManager(mgr, net, nextId)} :
    \E r \in {StoreDeleteWith(StoreHandle(pm), remote[TheHost], name)} :
        /\ pm.id <= MaxManagers + 1
        /\ mgr' = pm.m
        /\ nextId' = pm.id
        /\ remote' = [remote EXCEPT ![TheHost] = r.fs]
        /\ last' = [op |-> "delete", name |-> name, had |-> Held(mgr), net |-> net,
                    setup |-> pm.setup, exc |-> r.exc]
        /\ UNCHANGED <<managers, calls, file>>

\* storage.disconnect()
DoStoreDisconnect ==
    /\ mgr # NoManager
    /\ mgr' = NoManager
    /\ last' = [op |-> "disconnect"]
    /\ UNCHANGED <<remote, managers, nextId, calls, file>>

\* the network: the transport under the adapter's manager is lost
DoStoreDrop ==
    /\ mgr # NoManager
    /\ mgr.sftp = "live"
    /\ mgr' = Dropped(mgr)
    /\ last' = [op |-> "drop"]
    /\ UNCHANGED <<remote, managers, nextId, calls, file>>

StoreNext ==
    \/ DoStoreSave \/ DoStoreRead \/ DoStoreExists \/ DoStoreDelete
    \/ DoStoreDisconnect \/ DoStoreDrop

StoreSpec == StoreInit /\ [][StoreNext]_vars

----------------------------------------------------------------------------
(* SSHStorageFile: the handle storage._open returns.  file is the handle;   *)
(* its buffer is the content of self.file, the BytesIO the handle holds.    *)

\* SSHStorageFile.__init__
OpenFile(name, mode) ==
    [name |-> name, mode |-> mode, is_dirty |-> FALSE, buffer |-> "", closed |-> FALSE]

\* 'w' in self._mode
Writable(mode) == \E i \in 1..Len(mode) : mode[i] = "w"

\* SSHStorageFile.write: [f, exc]; self.file becomes a new BytesIO(content)
FileWrite(f, content) ==
    IF ~Writable(f.mode) THEN [f |-> f, exc |-> "AttributeError"]
    ELSE [f |-> [f EXCEPT !.buffer = content, !.is_dirty = TRUE, !.closed = FALSE],
          exc |-> "none"]

\* SSHStorage._save for any content: content.open() comes first, line 264;
\* a File (a record with a name) has open(), a bytes object has not
StoreSaveAny(m, fs, name, content, net, id) ==
    IF "name" \notin DOMAIN content
    THEN [m |-> m, id |-> id, exc |-> "AttributeError", fs |-> fs, setup |-> "kept"]
    ELSE StoreSave(m, fs, name, content, net, id)

\* SSHStorageFile.close: [f, m, id, fs, exc]; getvalue() of a closed BytesIO
\* raises ValueError; _save is given the bytes of getvalue(), and
\* self.file.close() is reached only when _save returned
FileClose(f, m, fs, net, id) ==
    IF ~f.is_dirty
    THEN [f |-> [f EXCEPT !.closed = TRUE], m |-> m, id |-> id, fs |-> fs,
          exc |-> "none"]
    ELSE IF f.closed
    THEN [f |-> f, m |-> m, id |-> id, fs |-> fs, exc |-> "ValueError"]
    ELSE LET r == StoreSaveAny(m, fs, f.name, [raw |-> f.buffer], net, id)
         IN  [f   |-> IF r.exc = "none" THEN [f EXCEPT !.closed = TRUE] ELSE f,
              m   |-> r.m, id |-> r.id, fs |-> r.fs, exc |-> r.exc]

\* SSHStorage.__init__ against hosts as an earlier storage instance may have
\* left them: untouched, or holding one saved file
FileInit ==
    /\ remote \in [Hosts -> {FreshHost} \cup
                   {StoreSave(NoManager, FreshHost, name, content, "ok", 1).fs :
                       name \in StorageNames, content \in StorageContents}]
    /\ mgr = NoManager
    /\ managers = [h \in Hosts |-> NoManager]
    /\ nextId = 1
    /\ last = [op |-> "init"]
    /\ calls = NoCalls
    /\ file = NoFile

\* storage.open(name, mode)
DoFileOpen ==
    \E name \in StorageNames, mode \in {<<"r", "b">>, <<"w", "b">>} :
        /\ file' = OpenFile(name, mode)
        /\ last' = [op |-> "open", name |-> name, mode |-> mode]
        /\ UNCHANGED <<remote, mgr, managers, nextId, calls>>

\* file.write(content)
DoFileWrite ==
    /\ file # NoFile
    /\ \E content \in {"c1", "c2"} :
       \E r \in {FileWrite(file, content)} :
        /\ file' = r.f
        /\ last' = [op |-> "write", data |-> content, exc |-> r.exc]
        /\ UNCHANGED <<remote, mgr, managers, nextId, calls>>

\* file.close()
DoFileClose ==
    /\ file # NoFile
    /\ \E net \in NetOutcomes :
       \E r \in {FileClose(file, mgr, remote[TheHost], net, nextId)} :
        /\ r.id <= MaxManagers + 1
        /\ file' = r.f
        /\ mgr' = r.m
        /\ nextId' = r.id
        /\ remote' = [remote EXCEPT ![TheHost] = r.fs]
        /\ last' = [op |-> "close", net |-> net, dirty |-> file.is_dirty,
                    wasClosed |-> file.closed, buffer |-> file.buffer,
                    stored |-> (r.fs # remote[TheHost]), exc |-> r.exc]
        /\ UNCHANGED <<managers, calls>>

\* file.read(): self.file becomes what _read returned
DoFileRead ==
    /\ file # NoFile
    /\ \E net \in NetOutcomes :
       \E pm \in {StoreManager(mgr, net, nextId)} :
       \E r \in {StoreReadWith(StoreHandle(pm), remote[TheHost], file.name)} :
        /\ pm.id <= MaxManagers + 1
        /\ mgr' = pm.m
        /\ nextId' = pm.id
        /\ file' = IF r.exc # "none" THEN file
                   ELSE [file EXCEPT !.buffer = r.data, !.closed = FALSE]
        /\ last' = [op |-> "read", net |-> net, exc |-> r.exc, data |-> r.data]
        /\ UNCHANGED <<remote, managers, calls>>

FileNext == DoFileOpen \/ DoFileWrite \/ DoFileRead \/ DoFileClose

FileSpec == FileInit /\ [][FileNext]_vars

----------------------------------------------------------------------------
(* The adapter and its manager called with absolute names and paths *)

\* name arguments: a bare file name and an absolute one
ScopeNames == {<<"f", ".", "j">>, <<"/", "e", "/", "f", ".", "j">>}

\* path arguments of upload and remove: none, a relative and an absolute one
ScopePaths == {None, <<"s">>, <<"/", "e">>}

\* storage._save(name, content)
DoScopeSave ==
    /\ NumFiles(remote[TheHost]) < MaxFiles
    /\ \E name \in ScopeNames, content \in StorageContents, net \in NetOutcomes :
       \E r \in {StoreSave(mgr, remote[TheHost], name, content, net, nextId)} :
        /\ r.id <= MaxManagers + 1
        /\ mgr' = r.m
        /\ nextId' = r.id
        /\ remote' = [remote EXCEPT ![TheHost] = r.fs]
        /\ last' = [op |-> "save", name |-> name, exc |-> r.exc]
        /\ UNCHANGED <<managers, calls, file>>

\* storage.exists(name); target is the remote_path handed to sftp.stat
DoScopeExists ==
    \E name \in ScopeNames, net \in NetOutcomes :
    \E pm \in {StoreManager(mgr, net, nextId)} :
    \E r \in {StoreExistsWith(StoreHandle(pm), remote[TheHost], name)} :
        /\ pm.id <= MaxManagers + 1
        /\ mgr' = pm.m
        /\ nextId' = pm.id
        /\ last' = [op |-> "exists", name |-> name, target |-> RemotePath(name),
                    exc |-> r.exc, ret |-> r.ret]
        /\ UNCHANGED <<remote, managers, calls, file>>

\* storage._read(name); target is the remote_path handed to sftp.open
DoScopeRead ==
    \E name \in ScopeNames, net \in NetOutcomes :
    \E pm \in {StoreManager(mgr, net, nextId)} :
    \E r \in {StoreReadWith(StoreHandle(pm), remote[TheHost], name)} :
        /\ pm.id <= MaxManagers + 1
        /\ mgr' = pm.m
        /\ nextId' = pm.id
        /\ last' = [op |-> "read", name |-> name, target |-> RemotePath(name),
                    exc |-> r.exc, data |-> r.data]
        /\ UNCHANGED <<remote, managers, calls, file>>

\* storage.delete(name); target is the remote_path handed to sftp.remove
DoScopeDelete ==
    \E name \in ScopeNames, net \in NetOutcomes :
    \E pm \in {StoreManager(mgr, net, nextId)} :
    \E r \in {StoreDeleteWith(StoreHandle(pm), remote[TheHost], name)} :
        /\ pm.id <= MaxManagers + 1
        /\ mgr' = pm.m
        /\ nextId' = pm.id
        /\ remote' = [remote EXCEPT ![TheHost] = r.fs]
        /\ last' = [op |-> "delete", name |-> name, target |-> RemotePath(name),
                    exc |-> r.exc]
        /\ UNCHANGED <<managers, calls, file>>

\* storage.ssh_client_manager.upload(sourcefile, path, destname)
DoScopeUpload ==
    /\ mgr # NoManager
    /\ NumFiles(remote[TheHost]) < MaxFiles
    /\ \E sourcefile \in StorageContents, path \in ScopePaths,
          destname \in {None, <<"/", "g">>} :
       \E r \in {Upload(mgr, remote[TheHost], sourcefile, path, destname, TRUE)} :
        /\ remote' = [remote EXCEPT ![TheHost] = r.fs]
        /\ last' = [op |-> "upload", path |-> path, destname |-> destname,
                    target |-> r.destpath, exc |-> r.exc, ret |-> r.ret]
        /\ UNCHANGED <<mgr, managers, nextId, calls, file>>

\* storage.ssh_client_manager.remove(filename, path)
DoScopeRemove ==
    /\ mgr # NoManager
    /\ \E filename \in BareNames, path \in ScopePaths :
       \E r \in {Remove(mgr, remote[TheHost], filename, path)} :
        /\ remote' = [remote EXCEPT ![TheHost] = r.fs]
        /\ last' = [op |-> "remove", path |-> path, filename |-> filename,
                    target |-> r.destpath, exc |-> r.exc, ret |-> r.ret]
        /\ UNCHANGED <<mgr, managers, nextId, calls, file>>

ScopeNext ==
    \/ DoScopeSave \/ DoScopeExists \/ DoScopeRead \/ DoScopeDelete
    \/ DoScopeUpload \/ DoScopeRemove

ScopeSpec == StoreInit /\ [][ScopeNext]_vars

----------------------------------------------------------------------------
(* The operations MultipleSSHStorages inherits from SSHStorage: delete,     *)
(* _read, size and listdir reach their manager through the inherited        *)
(* ssh_client_manager property.  mgr is the coordinator's                   *)
(* _ssh_client_manager attribute, which SSHStorage.__init__ binds to None   *)
(* and no method of the coordinator rebinds.                               *)

\* st_size of a stored file
SizeOf(data) == IF data = "c1" THEN 1 ELSE 2

\* self._sftp.stat(p).st_size: [exc, size]
SftpSize(handle, fs, p) ==
    IF HandleFault(handle) # "none" THEN [exc |-> HandleFault(handle), size |-> 0]
    ELSE IF ServerIsFile(fs, p) THEN [exc |-> "none", size |-> SizeOf(fs.files[Resolve(p)])]
    ELSE IF ServerStat(fs, p) THEN [exc |-> "none", size |-> 0]
    ELSE [exc |-> "IOError", size |-> 0]

\* self._sftp.listdir_attr(p), split as listdir splits it: [exc, dirs, files]
SftpListdir(handle, fs, p) ==
    IF HandleFault(handle) # "none"
    THEN [exc |-> HandleFault(handle), dirs |-> {}, files |-> {}]
    ELSE IF Resolve(p) \notin fs.dirs
    THEN [exc |-> "IOError", dirs |-> {}, files |-> {}]
    ELSE [exc   |-> "none",
          dirs  |-> {PathSplit(q)[2] : q \in {d \in fs.dirs \ {<<Sep>>} : Parent(d) = Resolve(p)}},
          files |-> {PathSplit(q)[2] : q \in {f \in DOMAIN fs.files : Parent(f) = Resolve(p)}}]

\* SSHStorage.size: [exc, size]
StoreSizeWith(h, fs, name) ==
    IF h.exc # "none" THEN [exc |-> h.exc, size |-> 0]
    ELSE SftpSize(h.handle, fs, RemotePath(name))

\* SSHStorage.listdir: [exc, dirs, files]
StoreListdirWith(h, fs, path) ==
    IF h.exc # "none" THEN [exc |-> h.exc, dirs |-> {}, files |-> {}]
    ELSE SftpListdir(h.handle, fs, RemotePath(path))

\* the ssh_client_manager property on the coordinator: the attribute m, after
\* the coordinator's own _start_connection when m is None: [m, exc, sw]
CoordManager(m, map, nets, id) ==
    IF m = NoManager
    THEN LET sw == StartConnection(map, nets, id)
         IN  [m |-> m, exc |-> sw.exc, sw |-> sw]
    ELSE [m |-> m, exc |-> "none",
          sw |-> [map |-> map, exc |-> "none", setups |-> NotReached, id |-> id]]

\* self.ssh_client_manager.sftp on the coordinator: None has no sftp
CoordHandle(pm) ==
    IF pm.exc # "none" THEN [exc |-> pm.exc, handle |-> "None"]
    ELSE IF pm.m = NoManager THEN [exc |-> "AttributeError", handle |-> "None"]
    ELSE [exc |-> "none", handle |-> SftpProperty(pm.m, "ok").handle]

\* the host the attribute's manager talks to
CoordHost(m) == IF m = NoManager THEN TheHost ELSE m.hostname

\* name is stored as a regular file on every host
StoredOnAll(rem, name) == \A h \in Hosts : ServerIsFile(rem[h], RemotePath(name))

\* path arguments of listdir: the base path itself and a directory under it
ListPaths == {<<>>, <<"s">>}

\* storage.delete(name) on the coordinator
DoCoordDelete ==
    /\ nextId + Len(HostOrder) - 1 <= MaxManagers
    /\ \E name \in StorageNames, nets \in [Hosts -> NetOutcomes] :
       \E pm \in {CoordManager(mgr, managers, nets, nextId)} :
       \E r \in {StoreDeleteWith(CoordHandle(pm), remote[CoordHost(pm.m)], name)} :
        /\ managers' = pm.sw.map
        /\ nextId' = pm.sw.id
        /\ remote' = [remote EXCEPT ![CoordHost(pm.m)] = r.fs]
        /\ last' = [op |-> "delete", name |-> name,
                    stored |-> StoredOnAll(remote, name), exc |-> r.exc]
        /\ UNCHANGED <<mgr, calls, file>>

\* storage.open(name).read() on the coordinator
DoCoordRead ==
    /\ nextId + Len(HostOrder) - 1 <= MaxManagers
    /\ \E name \in StorageNames, nets \in [Hosts -> NetOutcomes] :
       \E pm \in {CoordManager(mgr, managers, nets, nextId)} :
       \E r \in {StoreReadWith(CoordHandle(pm), remote[CoordHost(pm.m)], name)} :
        /\ managers' = pm.sw.map
        /\ nextId' = pm.sw.id
        /\ last' = [op |-> "read", name |-> name,
                    stored |-> StoredOnAll(remote, name), exc |-> r.exc,
                    data |-> r.data]
        /\ UNCHANGED <<remote, mgr, calls, file>>

\* storage.size(name) on the coordinator
DoCoordSize ==
    /\ nextId + Len(HostOrder) - 1 <= MaxManagers
    /\ \E name \in StorageNames, nets \in [Hosts -> NetOutcomes] :
       \E pm \in {CoordManager(mgr, managers, nets, nextId)} :
       \E r \in {StoreSizeWith(CoordHandle(pm), remote[CoordHost(pm.m)], name)} :
        /\ managers' = pm.sw.map
        /\ nextId' = pm.sw.id
        /\ last' = [op |-> "size", name |-> name,
                    stored |-> StoredOnAll(remote, name), exc |-> r.exc,
                    size |-> r.size]
        /\ UNCHANGED <<remote, mgr, calls, file>>

\* storage.listdir(path) on the coordinator
DoCoordListdir ==
    /\ nextId + Len(HostOrder) - 1 <= MaxManagers
    /\ \E path \in ListPaths, nets \in [Hosts -> NetOutcomes] :
       \E pm \in {CoordManager(mgr, managers, nets, nextId)} :
       \E r \in {StoreListdirWith(CoordHandle(pm), remote[CoordHost(pm.m)], path)} :
        /\ managers' = pm.sw.map
        /\ nextId' = pm.sw.id
        /\ last' = [op |-> "listdir", path |-> path,
                    stored |-> \A h \in Hosts : ServerStat(remote[h], RemotePath(path)),
                    exc |-> r.exc, dirs |-> r.dirs, files |-> r.files]
        /\ UNCHANGED <<remote, mgr, calls, file>>

\* saves and the inherited operations on the coordinator
CoordNext ==
    DoSave \/ DoCoordDelete \/ DoCoordRead \/ DoCoordSize \/ DoCoordListdir

CoordSpec == MultiInit /\ [][CoordNext]_vars

----------------------------------------------------------------------------
(* _decode_location: the settings dictionary decoded into self._config.     *)
(* A key of the dictionary is "absent", or bound to the empty string "" or  *)
(* to a value; HOSTNAMES may also be bound to the empty list "[]".  The     *)
(* protocol, port and static-proxy keys, which no manager reads, are left   *)
(* out.                                                                     *)

\* location.get(key, '') == ''
Blank(v) == v \in {"absent", ""}

\* settings dictionaries handed to the constructors
Locations ==
    [HOSTNAME  : {"absent", "", "h1"},
     HOSTNAMES : {"absent", "", "[]", "[h1,h2]"},
     USERNAME  : {"absent", "", "u"},
     BASEPATH  : {"absent", "", "/d"},
     PASSWORD  : {"absent", "", "p"},
     RSA_KEY   : {"absent", "", "k"}]

\* _decode_location, lines 85-139: the config of a location that passed the
\* mandatory checks; keyExists is os.path.exists(RSA_KEY)
DecodeOptional(location, keyExists) ==
    IF Blank(location.PASSWORD)
    THEN IF ~keyExists
         THEN [exc |-> "ImproperlyConfigured", about |-> "rsa_key"]
         ELSE [exc |-> "none", hostname |-> location.HOSTNAME,
               username |-> location.USERNAME, basepath |-> location.BASEPATH,
               password |-> "None", rsa_key |-> location.RSA_KEY]
    ELSE [exc |-> "none", hostname |-> location.HOSTNAME,
          username |-> location.USERNAME, basepath |-> location.BASEPATH,
          password |-> location.PASSWORD, rsa_key |-> "None"]

\* SSHStorage._decode_location: the config, or the exception raised
DecodeLocation(location, keyExists) ==
    IF Blank(location.HOSTNAME)
    THEN [exc |-> "ImproperlyConfigured", about |-> "hostname"]
    ELSE IF Blank(location.USERNAME)
    THEN [exc |-> "ImproperlyConfigured", about |-> "username"]
    ELSE IF Blank(location.BASEPATH)
    THEN [exc |-> "ImproperlyConfigured", about |-> "basepath"]
    ELSE IF Blank(location.PASSWORD) /\ Blank(location.RSA_KEY)
    THEN [exc |-> "ImproperlyConfigured", about |-> "password or rsa_key"]
    ELSE DecodeOptional(location, keyExists)

\* MultipleSSHStorages._decode_location, lines 330-334
MultiDecodeRest(location, config) ==
    IF config.exc # "none" THEN config
    ELSE [exc |-> "none", hostname |-> config.hostname,
          hostnames |-> location.HOSTNAMES, username |-> config.username,
          basepath |-> config.basepath, password |-> config.password,
          rsa_key |-> config.rsa_key]

\* MultipleSSHStorages._decode_location
MultiDecodeLocation(location, keyExists) ==
    IF Blank(location.HOSTNAMES)
    THEN [exc |-> "ImproperlyConfigured", about |-> "hostname"]
    ELSE MultiDecodeRest(location,
             DecodeLocation([location EXCEPT !.HOSTNAME = "localhost"], keyExists))

\* a settings dictionary is about to be handed to a constructor
DecodeInit ==
    /\ remote = [h \in Hosts |-> FreshHost]
    /\ mgr = NoManager
    /\ managers = [h \in Hosts |-> NoManager]
    /\ nextId = 1
    /\ calls = NoCalls
    /\ file = NoFile
    /\ \E location \in Locations, keyExists \in BOOLEAN :
           last = [op |-> "settings", location |-> location, keyExists |-> keyExists]

\* SSHStorage(location)
DoDecode ==
    /\ last.op = "settings"
    /\ last' = [op |-> "decode", class |-> "SSHStorage", location |-> last.location,
                keyExists |-> last.keyExists,
                config |-> DecodeLocation(last.location, last.keyExists)]
    /\ UNCHANGED <<remote, mgr, managers, nextId, calls, file>>

\* MultipleSSHStorages(location)
DoMultiDecode ==
    /\ last.op = "settings"
    /\ last' = [op |-> "decode", class |-> "MultipleSSHStorages",
                location |-> last.location, keyExists |-> last.keyExists,
                config |-> MultiDecodeLocation(last.location, last.keyExists)]
    /\ UNCHANGED <<remote, mgr, managers, nextId, calls, file>>

DecodeNext == DoDecode \/ DoMultiDecode

DecodeSpec == DecodeInit /\ [][DecodeNext]_vars

----------------------------------------------------------------------------
(* Claims about the connection life cycle (ConnSpec) *)

\* C1: whenever the manager holds no SFTP handle, accessing its sftp property
\* calls setup() before returning the handle (lazy reconnect after
\* close_connection()); when a live handle exists the property returns it
\* without calling setup().
C1_SftpAccessSetsUp ==
    last.op = "sftp" =>
        /\ last.had = "None" => last.setups = 1
        /\ last.had = "live" => (last.setups = 0 /\ last.handle = "live")

\* C8: setup() reports every authentication, network or transport failure of
\* the connect or SFTP-open step as the boolean false; it does not raise.
C8_SetupNeverRaises ==
    last.op = "setup" =>
        /\ last.exc = "none"
        /\ last.ret = (last.net = "ok")

\* C10: close_connection() never raises, returns true when both handles were
\* closed and false when a handle was missing, and in either case leaves the
\* manager with no open SFTP or session handle and every config field reset.
C10_CloseReleasesAll ==
    last.op = "close" =>
        /\ last.exc = "none"
        /\ last.ret = (last.had # "None")
        /\ mgr.sftp # "live" /\ mgr.ssh # "live"
        /\ mgr.hostname = "None" /\ mgr.username = "None"
        /\ mgr.password = "None" /\ mgr.rsa_key = "None" /\ mgr.port = 22
        /\ mgr.basepath = None /\ mgr.currentpath = None

----------------------------------------------------------------------------
(* Claims about directory creation (MkdirSpec) *)

\* the canonical paths of p and of all its ancestors below the root
Lineage(p) ==
    LET q == Resolve(p)
    IN  {UpTo(q, i) : i \in {k \in 1..Len(q) : k = Len(q) \/ q[k + 1] = Sep}}

\* C6: mkdir(path, recursive=true) over a working session never raises,
\* whether the path exists already or not, and after it the path and every
\* one of its ancestors exist.
C6_MkdirRecursiveIdempotent ==
    (last.op = "mkdir" /\ last.recursive /\ mgr.sftp = "live") =>
        /\ last.exc = "none"
        /\ Lineage(last.path) \subseteq remote[TheHost].dirs

----------------------------------------------------------------------------
(* Claims about upload (Spec) *)

\* C9: upload on a manager that holds an SFTP handle returns true or false
\* and never raises: an I/O error while ensuring the directory, probing the
\* destination or writing the file is returned as false.
C9_UploadNeverRaises ==
    (last.op = "upload" /\ mgr.sftp # "None") => last.exc = "none"


\* stem and extension of the names uploads are stored under
NameParts == {[stem |-> <<"f">>, ext |-> <<Dot, "j">>],
              [stem |-> <<"g">>, ext |-> <<>>]}

\* the name an upload recorded in op asks for
AskedName(op) == IF op.destname = None THEN op.sourcefile.name ELSE op.destname

\* the path of the k-th file of a name under the manager's base path and the
\* path argument of op: name.ext for k = 0, name_k.ext after it
StoredAs(op, np, k) ==
    mgr.basepath
    \o (IF op.path = None THEN <<>> ELSE <<Sep>> \o op.path)
    \o <<Sep>> \o np.stem
    \o (IF k = 0 THEN <<>> ELSE <<"_", Digits[k + 1]>>)
    \o np.ext

FilesOf(fs) == DOMAIN fs.files

\* fs2 is fs1 with `data` stored at q and nothing else changed
OnlyWrote(fs1, fs2, q, data) ==
    /\ FilesOf(fs2) = FilesOf(fs1) \cup {q}
    /\ fs2.files[q] = data
    /\ \A k \in FilesOf(fs1) \ {q} : fs2.files[k] = fs1.files[k]

\* C4: an upload with overwrite=false leaves every stored file as it was, and
\* when name.ext, name_1.ext, ..., name_(N-1).ext exist and name_N.ext does
\* not, it stores the source as name_N.ext and writes nothing else.
C4_UploadStep ==
    (last'.op = "upload" /\ ~last'.overwrite) =>
        /\ \A q \in FilesOf(remote[TheHost]) :
               /\ q \in FilesOf(remote'[TheHost])
               /\ remote'[TheHost].files[q] = remote[TheHost].files[q]
        /\ \A np \in NameParts, n \in 0..MaxFiles :
               ( /\ last'.exc = "none" /\ last'.ret
                 /\ np.stem \o np.ext = AskedName(last')
                 /\ \A k \in 0..(n - 1) :
                        Absolute(StoredAs(last', np, k)) \in FilesOf(remote[TheHost])
                 /\ ~Present(remote[TheHost], Absolute(StoredAs(last', np, n))) )
               => /\ last'.destpath = StoredAs(last', np, n)
                  /\ OnlyWrote(remote[TheHost], remote'[TheHost],
                               Absolute(StoredAs(last', np, n)), last'.sourcefile.data)

C4_NoClobber == [][C4_UploadStep]_vars

\* C4 happens: the third upload of f.j with overwrite=false is stored as
\* f_2.j beside two earlier files of other content
C4_Witness ==
    /\ last.op = "upload" /\ ~last.overwrite /\ last.ret
    /\ last.destpath = <<"/", "d", "/", "f", "_", "2", ".", "j">>
    /\ last.sourcefile.data = "c2"
    /\ remote[TheHost].files[<<"/", "d", "/", "f", ".", "j">>] = "c1"
    /\ remote[TheHost].files[<<"/", "d", "/", "f", "_", "1", ".", "j">>] = "c1"

\* C5: an upload with overwrite=true that succeeds has written the source at
\* base path + path + name, without a suffix, whatever was stored there, and
\* has written nothing else.
C5_UploadStep ==
    (last'.op = "upload" /\ last'.overwrite /\ last'.exc = "none" /\ last'.ret) =>
        \A np \in NameParts :
            np.stem \o np.ext = AskedName(last') =>
                /\ last'.destpath = StoredAs(last', np, 0)
                /\ OnlyWrote(remote[TheHost], remote'[TheHost],
                             Absolute(StoredAs(last', np, 0)), last'.sourcefile.data)

C5_OverwriteExact == [][C5_UploadStep]_vars

\* C5 happens: f.j, stored before (f_1.j exists only once f.j did), is
\* replaced by an upload with overwrite=true
C5_Witness ==
    /\ last.op = "upload" /\ last.overwrite /\ last.ret
    /\ last.path = None /\ last.sourcefile.data = "c2"
    /\ <<"/", "d", "/", "f", "_", "1", ".", "j">> \in FilesOf(remote[TheHost])
    /\ remote[TheHost].files[<<"/", "d", "/", "f", "_", "1", ".", "j">>] = "c1"
    /\ remote[TheHost].files[<<"/", "d", "/", "f", ".", "j">>] = "c2"

----------------------------------------------------------------------------
(* Claims about the coordinator (MultiSpec) *)

\* host h is served by a manager with a working session and stores name
HostHas(h, name) ==
    /\ managers[h] # NoManager
    /\ managers[h].sftp = "live"
    /\ Present(remote[h], Absolute(Config.basepath \o <<Sep>> \o name))

\* C2: in every state of the coordinator, also before any sweep and after a
\* failed one, exists(name) returns true iff every host's manager reports the
\* path present, and returns false, without raising, when a host is
\* unreachable, has no connected manager or lacks the path.
C2_ExistsIffEveryHost ==
    last.op = "exists" =>
        /\ last.exc = "none"
        /\ last.ret = (\A h \in Hosts : HostHas(h, last.name))

\* every host has a manager that holds an SFTP handle, as after a sweep that
\* returned
EveryHostConnected ==
    \A h \in Hosts : managers[h] # NoManager /\ managers[h].sftp # "None"

\* C3: the coordinator's upload calls upload on every host's manager even if
\* an earlier host's upload fails: no exception is raised, every host is
\* attempted, and a host whose upload succeeded holds the file.
C3_FanOutCompletes ==
    (last.op = "put" /\ EveryHostConnected) =>
        /\ last.exc = "none"
        /\ \A h \in Hosts :
               /\ last.results[h] \in {"True", "False"}
               /\ last.results[h] = "True" => HostHas(h, last.name)

\* the map holds for h a manager constructed for h, set up and not closed
ConnectedFor(h) ==
    /\ managers[h] # NoManager
    /\ managers[h].hostname = h
    /\ managers[h].sftp # "None" /\ managers[h].ssh # "None"
    /\ CheckPasses(managers[h])

----------------------------------------------------------------------------
(* Claims about remove (RemoveSpec) *)

\* the file a remove recorded in op is to delete: the bare name b under the
\* manager's base path and the path argument
RemoveTarget(op, b) ==
    Absolute(mgr.basepath
             \o (IF op.path = None THEN <<>> ELSE <<Sep>> \o op.path)
             \o <<Sep>> \o b)

\* C12: remove on a manager that holds an SFTP handle never raises; it
\* returns true exactly when the file named by the last component of
\* filename, in the directory upload would use, was there and the session
\* works, and then that file alone is gone; when it returns false the remote
\* file system is unchanged.
C12_RemoveStep ==
    (last'.op = "remove" /\ mgr.sftp # "None") =>
        \A b \in BareNames :
            (last'.filename = b \/ last'.filename = <<"s", Sep>> \o b) =>
                /\ last'.exc = "none"
                /\ last'.ret = ( /\ mgr.sftp = "live"
                                 /\ RemoveTarget(last', b) \in FilesOf(remote[TheHost]) )
                /\ remote'[TheHost].dirs = remote[TheHost].dirs
                /\ FilesOf(remote'[TheHost]) =
                       IF last'.ret
                       THEN FilesOf(remote[TheHost]) \ {RemoveTarget(last', b)}
                       ELSE FilesOf(remote[TheHost])
                /\ \A q \in FilesOf(remote'[TheHost]) :
                       remote'[TheHost].files[q] = remote[TheHost].files[q]

C12_RemoveExact == [][C12_RemoveStep]_vars

\* C12 happens: remove('s/f.j') with no path has deleted f.j under the base
\* path and left the f.j stored under s
C12_Witness ==
    /\ last.op = "remove" /\ last.ret
    /\ last.filename = <<"s", "/", "f", ".", "j">> /\ last.path = None
    /\ <<"/", "d", "/", "f", ".", "j">> \notin FilesOf(remote[TheHost])
    /\ <<"/", "d", "/", "s", "/", "f", ".", "j">> \in FilesOf(remote[TheHost])

----------------------------------------------------------------------------
(* Claims about configuration decoding (DecodeSpec) *)

\* the key is missing or bound to an empty value
Missing(v) == v \in {"absent", "", "[]"}

\* the host setting the constructed class reads
HostSetting(l) ==
    IF l.class = "SSHStorage" THEN l.location.HOSTNAME ELSE l.location.HOSTNAMES

\* C13: construction fails with a configuration error when the host, the
\* username, the base path or both credentials are missing or empty, and when
\* a key file is given that does not exist locally; when both a password
\* and a key file are given the config keeps the password and no key file.
C13_DecodeChecks ==
    last.op = "decode" =>
        /\ ( \/ Missing(HostSetting(last))
             \/ Missing(last.location.USERNAME)
             \/ Missing(last.location.BASEPATH)
             \/ Missing(last.location.PASSWORD) /\ Missing(last.location.RSA_KEY) )
               => last.config.exc = "ImproperlyConfigured"
        /\ (~Missing(last.location.RSA_KEY) /\ ~last.keyExists)
               => last.config.exc = "ImproperlyConfigured"
        /\ ( /\ ~Missing(last.location.PASSWORD) /\ ~Missing(last.location.RSA_KEY)
             /\ last.config.exc = "none" )
               => ( /\ last.config.password = last.location.PASSWORD
                    /\ last.config.rsa_key = "None" )

----------------------------------------------------------------------------
(* Claims about the single-host adapter (StoreSpec) *)

\* C11: a read of name that follows a save of name that returned yields,
\* without raising, the bytes that were saved, also for a name with a
\* directory part and over a file stored there before.
C11_SaveThenRead ==
    ( /\ last.op = "read" /\ last.after.op = "save"
      /\ last.after.exc = "none" /\ last.after.name = last.name )
    => (last.exc = "none" /\ last.data = last.after.data)

\* C11 happens: s/f.j, stored before, is saved with other bytes and read back
C11_Witness ==
    /\ last.op = "read" /\ last.after.op = "save" /\ last.after.exc = "none"
    /\ last.name = <<"s", "/", "f", ".", "j">> /\ last.after.name = last.name
    /\ last.after.existed /\ last.after.data = "c2" /\ last.data = "c2"

----------------------------------------------------------------------------
(* Claims about discarded managers (MultiSpec) *)

\* C14: after a reconnect sweep, whether it returned or raised, the host map
\* refers to no manager whose check() fails: such a manager was discarded.
C14_FailedCheckDiscarded ==
    last.op = "sweep" =>
        \A h \in Hosts : managers[h] = NoManager \/ CheckPasses(managers[h])

----------------------------------------------------------------------------
(* Claims about reconnecting (StoreSpec) *)

\* C15: a top-level operation invoked while the adapter holds the manager
\* left over from a failed connection attempt (one without SFTP handle) calls
\* setup() afresh, and when the host is reachable by then it runs over a live
\* session.
C15_RetryReconnects ==
    (last.op \in {"save", "read", "exists", "delete"} /\ last.had = "None") =>
        /\ last.setup # "kept"
        /\ last.net = "ok" => (mgr.sftp = "live" /\ last.exc # "AttributeError")

----------------------------------------------------------------------------
(* Claims about failed set-ups (ConnSpec) *)

\* C16: when setup() returned true the manager holds a live session and a
\* live SFTP handle; when it returned false it holds neither.
C16_SetupAllOrNothing ==
    (last.op = "setup" /\ last.exc = "none") =>
        IF last.ret
        THEN mgr.ssh = "live" /\ mgr.sftp = "live"
        ELSE mgr.ssh # "live" /\ mgr.sftp # "live"

----------------------------------------------------------------------------
(* Claims about concurrent directory creation (RaceSpec) *)

\* C17: under every interleaving of the requests of two concurrent
\* mkdir(path, recursive=true) calls, a call that has ended has not raised,
\* and the path it was given and all its ancestors exist.
C17_RaceTolerated ==
    \A s \in Sessions :
        calls[s].pc = "done" =>
            /\ calls[s].exc = "none"
            /\ Lineage(calls[s].path) \subseteq remote[TheHost].dirs

----------------------------------------------------------------------------
(* Claims about the independence of the hosts (MultiSpec) *)

\* C18: a sweep (on its own or within a save) keeps for every host whose
\* manager passes check() that very manager, without setup() or close on it,
\* also when its transport is dead; a host the sweep did not reach keeps its
\* entry; and a close or a lost transport on one host changes no other
\* host's entry.
C18_HostStep ==
    /\ last'.op \in {"sweep", "save"} =>
           \A h \in Hosts :
               /\ (managers[h] # NoManager /\ CheckPasses(managers[h]))
                      => (managers'[h] = managers[h] /\ last'.setups[h] \in {"kept", "skipped"})
               /\ last'.setups[h] = "skipped" => managers'[h] = managers[h]
               /\ last'.setups[h] = "True" =>
                      (managers'[h].hostname = h /\ managers'[h].sftp = "live")
    /\ last'.op \in {"mclose", "hostdrop"} =>
           \A h \in Hosts \ {last'.host} : managers'[h] = managers[h]

----------------------------------------------------------------------------
(* Claims about the coordinator's inherited operations (CoordSpec) *)

\* C19: delete(name) on the coordinator, name being stored on every host,
\* does not raise and leaves the file on no host.
C19_DeleteEverywhere ==
    (last.op = "delete" /\ last.stored) =>
        /\ last.exc = "none"
        /\ \A h \in Hosts : ~ServerIsFile(remote[h], RemotePath(last.name))

\* C20: read, size and listdir on the coordinator, the name or directory
\* being stored on every host, do not raise and return the bytes, the size
\* and the listing a host holds.
C20_ReadView ==
    (last.op \in {"read", "size", "listdir"} /\ last.stored) =>
        /\ last.exc = "none"
        /\ last.op = "read" =>
               \E h \in Hosts : last.data = remote[h].files[Resolve(RemotePath(last.name))]
        /\ last.op = "size" =>
               \E h \in Hosts :
                   last.size = SizeOf(remote[h].files[Resolve(RemotePath(last.name))])
        /\ last.op = "listdir" =>
               \E h \in Hosts :
                   last.files = {PathSplit(f)[2] : f \in
                                    {g \in FilesOf(remote[h]) :
                                        Parent(g) = Resolve(RemotePath(last.path))}}

----------------------------------------------------------------------------
(* Claims about the file handle (FileSpec) *)

\* C21: a write on a handle opened for writing is accepted and a write on a
\* read-only handle is rejected; the first close of a handle that was written
\* to, the host being reachable, does not raise and stores the written bytes
\* at the handle's name; the close of a handle never written to stores
\* nothing.
C21_BufferedUntilClose ==
    /\ last.op = "write" =>
           last.exc = (IF Writable(file.mode) THEN "none" ELSE "AttributeError")
    /\ (last.op = "close" /\ ~last.dirty) => (last.exc = "none" /\ ~last.stored)
    /\ (last.op = "close" /\ last.dirty /\ ~last.wasClosed /\ last.net = "ok") =>
           /\ last.exc = "none"
           /\ ServerIsFile(remote[TheHost], RemotePath(file.name))
           /\ remote[TheHost].files[Resolve(RemotePath(file.name))] = last.buffer

----------------------------------------------------------------------------
(* Claims about the base path (ScopeSpec) *)

\* the canonical path q is the directory b or lies below it
Under(q, b) ==
    /\ Len(q) >= Len(b)
    /\ SubSeq(q, 1, Len(b)) = b
    /\ (Len(q) = Len(b) \/ b = <<Sep>> \/ q[Len(b) + 1] = Sep)

UnderBase(q) == Under(q, Resolve(Config.basepath))

\* the canonical paths a step created, removed or rewrote on a host
Touched(fs, fs2) ==
    ((fs.dirs \cup fs2.dirs) \ (fs.dirs \cap fs2.dirs)) \cup
    {q \in DOMAIN fs.files \cup DOMAIN fs2.files :
        \/ q \notin DOMAIN fs.files
        \/ q \notin DOMAIN fs2.files
        \/ fs.files[q] # fs2.files[q]}

C22_Step ==
    /\ \A q \in Touched(remote[TheHost], remote'[TheHost]) : UnderBase(q)
    /\ (/\ last'.op \in {"exists", "read", "delete", "upload", "remove"}
        /\ last'.target # None) =>
           UnderBase(Resolve(last'.target))

\* C22: every step of save, exists, read, delete, upload and remove, whatever
\* name, path and destination name it is given (absolute ones included),
\* creates, rewrites and removes only paths under the storage's base path
\* and hands the server only a path under the base path.
C22_ScopedUnderBase == [][C22_Step]_vars

====
